---- MODULE Spec2Model ----
(***************************************************************************)
(* openitools-ipcc: the acquisition pipeline of one entity (device model). *)
(* fetch_and_bake walks the catalog's firmware versions in order; for each *)
(* bake_ipcc consults the ledger (ignored_firmwares.json, metadata.json),  *)
(* downloads the archive (download_file / get_response /                   *)
(* write_with_progress), extracts the biggest disk image                   *)
(* (extract_the_biggest_dmg, with the decrypt_dmg fallback), bundles the   *)
(* payload and records the version as completed.                           *)
(***************************************************************************)
EXTENDS Integers, Sequences, FiniteSets, TLC

\* ------------------------------------------------------------------ bounds
NVersions == 3          \* firmware versions the catalog lists for the entity
RemoteLen == 2          \* bytes of the remote archive
MaxDepth == 2           \* nested extract_the_biggest_dmg calls explored
MaxCalls == 2           \* download_file calls of the download harness
NTasks == 4             \* entity tasks main() creates
Permits == 2            \* --concurrent-jobs
MaxEntries == 2         \* entries a list of a ledger document holds at most
MaxBytes == 4           \* bytes of data an encrypted image holds at most
ByteValues == 2         \* values a byte takes
BlockBytes == 2         \* bytes of a cipher block
MaxWork == 2            \* publish and install calls a run makes at most

\* ------------------------------------------------------- program constants
MAX_RETRIES == 3
MD_LENGTH == 20
CIPHER_KEY_LENGTH == 16
CHUNK_SIZE_EXPONENT == 5

Versions == 1..NVersions
None == -1              \* Python's None for last_content_length

\* The remote object's bytes: 1, 2, ..., RemoteLen.
Remote == [i \in 1..RemoteLen |-> i]

\* ----------------------------------------------------------------- digests
\* calculate_hash: a digest is a function of the algorithm and the content
\* (collision-free); the catalog's digest is the digest of some content.
calculate_hash(data, algo) == <<algo, data>>

BadContent == <<0>>     \* content no download produces: a wrong catalog digest

\* A comparison that stops at the sha1 digest.
compare_sha1_only(data, firmware) ==
    calculate_hash(data, "sha1") = firmware.sha1sum

\* compare_either_hash: sha1 first, md5 only when sha1 differs.
compare_either_hash(data, firmware) ==
    \/ calculate_hash(data, "sha1") = firmware.sha1sum
    \/ calculate_hash(data, "md5") = firmware.md5sum

\* ----------------------------------------------------------------- catalog
\* A Firmware record (models.py): version, the two digests, and whether the
\* text of a failed request's error (which carries the url) contains "416".
Firmware(v, sha1good, md5good, u416) ==
    [version |-> v,
     sha1sum |-> calculate_hash(IF sha1good THEN Remote ELSE BadContent, "sha1"),
     md5sum  |-> calculate_hash(IF md5good THEN Remote ELSE BadContent, "md5"),
     url416  |-> u416]

NoFirmware == Firmware(0, FALSE, FALSE, FALSE)

\* The catalog answer for the entity, in catalog order.  Odd versions have a
\* url containing the digits 416 and both digests right; even versions have
\* only the md5 digest right.
CatalogEntry(v) == Firmware(v, v % 2 = 1, TRUE, v % 2 = 1)

Catalog == [v \in Versions |-> CatalogEntry(v)]

\* The Carrier Bundles the image of a version holds: every third version's
\* image holds none.
Bundles(v) == IF v % 3 = 0 THEN 0 ELSE 1

\* put_metadata returns Ok when the document was rewritten and an Error
\* value, without raising, when it was not (malformed JSON already in the
\* document, an I/O error).  The environment lets the write of metadata.json
\* fail for every third version.
put_metadata_outcomes(v) == IF v % 3 = 0 THEN BOOLEAN ELSE {TRUE}

\* A filter that hands the firmwares over last first.
RECURSIVE FilterFirmwaresReversed(_, _)
FilterFirmwaresReversed(firmwares, only) ==
    IF firmwares = <<>> THEN <<>>
    ELSE LET rest == FilterFirmwaresReversed(Tail(firmwares), only)
         IN IF only = 0 \/ Head(firmwares).version = only
            THEN rest \o <<Head(firmwares)>>
            ELSE rest

\* fetch_and_bake's only_firmware filter (0 stands for None: no filter).
RECURSIVE FilterFirmwares(_, _)
FilterFirmwares(firmwares, only) ==
    IF firmwares = <<>> THEN <<>>
    ELSE LET rest == FilterFirmwares(Tail(firmwares), only)
         IN IF only = 0 \/ Head(firmwares).version = only
            THEN <<Head(firmwares)>> \o rest
            ELSE rest

\* ------------------------------------------------------------------ ledger
\* The value under "ignored" in ignored_firmwares.json: a list, or null.
\* A missing file, an empty file and a missing key all read as the empty list.
EmptyIgnored == [null |-> FALSE, list |-> <<>>]

InSeq(x, s) == \E i \in 1..Len(s) : s[i] = x

\* is_firmware_version_ignored raises TypeError when the stored value is null
\* (for fm in None); otherwise it is list membership.
is_firmware_version_ignored_raises(ign) == ign.null

\* A lookup that answers from the first element of the list alone.
is_first_ignored(ign, version) ==
    Len(ign.list) > 0 /\ ign.list[1] = version

is_firmware_version_ignored(ign, version) == InSeq(version, ign.list)

\* is_firmware_version_done: some completed entry has this version.
is_firmware_version_done(done, version) == InSeq(version, done)

\* put_metadata(ignored_file, "ignored", lambda ign: (ign or []) + [version])
put_ignored(ign, version) ==
    [null |-> FALSE, list |-> Append(ign.list, version)]

\* put_metadata(ignored_file, "ignored",
\*              lambda firmwares: (firmwares or []).remove(version)):
\* list.remove returns None, which is what gets stored under the key; when
\* the version is absent remove raises and put_metadata leaves the file alone.
put_unignored(ign, version) ==
    IF InSeq(version, ign.list)
    THEN [null |-> TRUE, list |-> <<>>]
    ELSE ign

\* put_metadata(metadata.json, "fw", lambda acc: (acc or []) + [entry])
put_completed(done, version) == Append(done, version)

\* -------------------------------------------------------------- file system
\* One version directory: the downloaded archive (ipsw, with its bytes), the
\* image files extracted from it (x.dmg, x.dmg.aea), what the x.dmg holds,
\* the number of entries of bundles.json and the number of bundle tars.
EmptyDir ==
    [dir |-> FALSE, ipsw |-> FALSE, data |-> <<>>, imgs |-> {},
     kind |-> "none", manifest |-> 0, tars |-> 0]

Size(d) == IF d.ipsw THEN Len(d.data) ELSE 0

\* cleanup_file / Path.unlink(missing_ok=True) of the archive
cleanup_file(d) == [d EXCEPT !.ipsw = FALSE, !.data = <<>>]

\* zipfile.is_zipfile: the end-of-central-directory record is looked for at
\* the end of the file, so leading junk is accepted and a truncated file is not.
is_zipfile(d) ==
    /\ d.ipsw
    /\ Len(d.data) >= RemoteLen
    /\ SubSeq(d.data, Len(d.data) - RemoteLen + 1, Len(d.data)) = Remote

VARIABLES
    pc,              \* where the entity's task is
    retry,           \* retry_ignored_firmwares of the current run
    git_mode,        \* git_mode of the current run
    queue,           \* firmwares the for loop has still to visit
    cur,             \* the firmware bake_ipcc is processing
    processed_count, \* fetch_and_bake's processed_count
    base,            \* the entity directory exists
    ignored,         \* ignored_firmwares.json, key "ignored"
    fw,              \* metadata.json, key "fw" (the versions of its entries)
    fs,              \* the version directories
    attempt,         \* download_file: loop variable
    lcl,             \* download_file: last_content_length
    body,            \* download_file: the response body being streamed
    reqs,            \* requests issued by the current download_file call
    headers,         \* get_response: the Range header sent (None: no header)
    resp,            \* get_response: how the last request was answered
    dlResult,        \* what download_file returned
    calls,           \* download harness: download_file calls so far
    atCall,          \* download harness: the state the current call started from
    entries,         \* extract: the archive's entries
    path,            \* extract: biggest_dmg_file_path of the running frame
    frames,          \* extract: biggest_dmg_file_path of the suspended frames
    skip,            \* extract: skip_extraction of the running frame
    has_parent,      \* extract: system_has_parent's answer
    unpacks,         \* 7z x invocations of the current top-level extract call
    lookups,         \* key lookups of the current top-level extract call
    decrypts,        \* fallback decryptions of the current top-level extract call
    exResult,        \* what extract_the_biggest_dmg returned
    last,            \* how the last bake_ipcc call ended
    devices_semaphore,  \* main: the permits the semaphore has left
    tasks,           \* main: where each fetch_and_bake task is
    GIT_LOCK,        \* git: the lock is held
    git,             \* git: where each task is in process_files_with_git
    document,        \* fs: the text of a ledger document
    answer,          \* fs: what the last ledger operation on it gave back
    args,            \* vfdecrypt: the arguments of a decrypt_vf call
    vf,              \* vfdecrypt: the call's locals and its output file
    INSTALL_LOCK,    \* helpers: the lock is held
    install_done,    \* helpers: the event is set
    install,         \* helpers: where each task is in install_ipsw
    ipsw_deb,        \* helpers: ipsw.deb is on disk
    ipsw_tool,       \* helpers: the ipsw tool is installed
    installers,      \* helpers: the tasks whose call ran the package install
    calls_left       \* main: the publish and install calls the run has still to make

runVars == <<retry, git_mode, queue, processed_count>>
ledgerVars == <<base, ignored, fw>>
dlVars == <<attempt, lcl, body, reqs, headers, resp, dlResult>>
exVars == <<entries, path, frames, skip, has_parent, unpacks, lookups, decrypts, exResult>>
limiterVars == <<devices_semaphore, tasks>>
gitVars == <<GIT_LOCK, git>>
pipelineVars == <<pc, runVars, cur, ledgerVars, fs, dlVars, calls, atCall, exVars, last>>
docVars == <<document, answer>>
vfVars == <<args, vf>>
installVars == <<INSTALL_LOCK, install_done, install, ipsw_deb, ipsw_tool, installers>>
auxVars == <<limiterVars, gitVars, docVars, vfVars, installVars, calls_left>>
restVars == <<pipelineVars, docVars, vfVars, installVars, calls_left>>
vars == <<pipelineVars, limiterVars, gitVars, docVars, vfVars, installVars, calls_left>>

Tasks == 1..NTasks

NoGit == [at |-> "none", message |-> "none"]

\* A key of a ledger document: absent, null, or a list of versions.
NoKey == [has |-> FALSE, null |-> FALSE, list |-> <<>>]

\* The parsed document {}.
EmptyMetadata == [ignored |-> NoKey, fw |-> NoKey, updated_at |-> FALSE]

\* A ledger document on disk: no file, a file of length zero, white space
\* only, text that is not JSON, or a JSON object.
Text(kind, metadata) == [kind |-> kind, metadata |-> metadata]

NoAnswer ==
    [op |-> "none", found |-> "none", raised |-> FALSE, error |-> FALSE,
     value |-> FALSE]

DocAtRest ==
    /\ document = Text("missing", EmptyMetadata)
    /\ answer = NoAnswer

\* A file of vfdecrypt: absent, or holding a sequence of bytes.
NoFile == [exists |-> FALSE, data |-> <<>>]

NoSize == [n |-> 0, exp |-> 0]

NoArgs ==
    [sig |-> [short |-> TRUE, head |-> "other", tail |-> "other"],
     hdr |-> [data_size |-> 0, chunk_size |-> NoSize],
     data |-> <<>>,
     key |-> [hex |-> FALSE, len |-> 0, aes_key |-> 0, hmac_key |-> 0],
     path_out |-> NoFile]

NoVf ==
    [pc |-> "none", error |-> "none", i |-> 0, ivs |-> <<>>, reads |-> 0,
     pos |-> 0, remaining |-> 0, chunk_size |-> NoSize,
     buf |-> [chunk |-> NoSize, more |-> 0], chunks |-> <<>>,
     path_out |-> NoFile]

VfAtRest ==
    /\ args = NoArgs
    /\ vf = NoVf

InstallAtRest ==
    /\ INSTALL_LOCK = FALSE
    /\ install_done = FALSE
    /\ install = [t \in Tasks |-> "none"]
    /\ ipsw_deb = FALSE
    /\ ipsw_tool = FALSE
    /\ installers = {}
    /\ calls_left = MaxWork

NoResp == [kind |-> "none", status |-> 0]

NoCall == [prev |-> "none", prevReqs |-> 0, ipsw |-> FALSE, data |-> <<>>]

InitCommon ==
    /\ retry = FALSE
    /\ git_mode = FALSE
    /\ queue = <<>>
    /\ cur = NoFirmware
    /\ processed_count = 0
    /\ base = FALSE
    /\ ignored = EmptyIgnored
    /\ fw = <<>>
    /\ attempt = 0
    /\ lcl = None
    /\ body = <<>>
    /\ reqs = 0
    /\ headers = None
    /\ resp = NoResp
    /\ dlResult = "none"
    /\ calls = 0
    /\ atCall = NoCall
    /\ entries = <<>>
    /\ path = "none"
    /\ frames = {}
    /\ skip = FALSE
    /\ has_parent = FALSE
    /\ unpacks = 0
    /\ lookups = 0
    /\ decrypts = 0
    /\ exResult = "none"
    /\ last = "none"
    /\ devices_semaphore = Permits
    /\ tasks = [t \in Tasks |-> "created"]
    /\ GIT_LOCK = FALSE
    /\ git = [t \in Tasks |-> NoGit]

Init ==
    /\ InitCommon
    /\ pc = "idle"
    /\ fs = [v \in Versions |-> EmptyDir]
    /\ DocAtRest
    /\ VfAtRest
    /\ InstallAtRest


\* --------------------------------------------------------- fetch_and_bake
rmtree_version(v) == [fs EXCEPT ![v] = EmptyDir]

\* bake_ipcc returned `result` to fetch_and_bake's loop: a True result counts
\* the version and, in git mode, goes on to process_files_with_git.
BakeReturn(result, how) ==
    /\ last' = how
    /\ processed_count' = IF result THEN processed_count + 1 ELSE processed_count
    /\ pc' = IF result /\ git_mode THEN "publish" ELSE "loop"

\* The locals of download_file and of extract_the_biggest_dmg once the call
\* that owned them is over.
DlLocalsGone ==
    /\ attempt' = 0
    /\ lcl' = None
    /\ body' = <<>>
    /\ reqs' = 0
    /\ headers' = None
    /\ resp' = NoResp
    /\ dlResult' = "none"

ExLocalsGone ==
    /\ entries' = <<>>
    /\ path' = "none"
    /\ frames' = {}
    /\ skip' = FALSE
    /\ has_parent' = FALSE
    /\ unpacks' = 0
    /\ lookups' = 0
    /\ decrypts' = 0
    /\ exResult' = "none"

RunLocalsGone ==
    /\ retry' = FALSE
    /\ git_mode' = FALSE
    /\ queue' = <<>>
    /\ processed_count' = 0
    /\ cur' = NoFirmware
    /\ last' = "none"

\* fetch_and_bake up to the for loop: the catalog answers 200 and the parsed
\* list (after the only_firmware filter) is not empty.  (A catalog error or
\* an empty list returns at once and changes nothing.)
StartRun ==
    /\ pc = "idle"
    /\ \E r \in BOOLEAN, g \in BOOLEAN, only \in {0} \cup Versions :
        /\ FilterFirmwares(Catalog, only) # <<>>
        /\ retry' = r
        /\ git_mode' = g
        /\ queue' = FilterFirmwares(Catalog, only)
    /\ processed_count' = 0
    /\ pc' = "loop"
    /\ last' = "none"
    /\ UNCHANGED <<cur, ledgerVars, fs, dlVars, calls, atCall, exVars>>
    /\ UNCHANGED auxVars

\* for firmware in parsed_data.firmwares: the next firmware enters bake_ipcc.
LoopNext ==
    /\ pc = "loop"
    /\ queue # <<>>
    /\ cur' = Head(queue)
    /\ queue' = Tail(queue)
    /\ pc' = "bake"
    /\ last' = "none"
    /\ UNCHANGED <<retry, git_mode, processed_count, ledgerVars, fs,
                   dlVars, calls, atCall, exVars>>
    /\ UNCHANGED auxVars

\* After the loop: if processed_count == 0: shutil.rmtree(current_ident).
\* The entity directory holds both ledger documents and every version
\* directory.
EndRun ==
    /\ pc = "loop"
    /\ queue = <<>>
    /\ IF processed_count = 0
       THEN /\ base' = FALSE
            /\ ignored' = EmptyIgnored
            /\ fw' = <<>>
            /\ fs' = [v \in Versions |-> EmptyDir]
       ELSE UNCHANGED <<base, ignored, fw, fs>>
    /\ pc' = "idle"
    /\ RunLocalsGone
    /\ UNCHANGED <<dlVars, calls, atCall, exVars>>
    /\ UNCHANGED auxVars

\* process_files_with_git after a completed version.  A failing git command
\* raises out of the for loop into fetch_and_bake's except: the task ends
\* there, without the processed_count test.
Publish ==
    /\ pc = "publish"
    /\ \E ok \in BOOLEAN :
        IF ok
        THEN /\ pc' = "loop"
             /\ UNCHANGED <<retry, git_mode, queue, processed_count, cur, last>>
        ELSE /\ pc' = "idle"
             /\ RunLocalsGone
    /\ UNCHANGED <<ledgerVars, fs, dlVars, calls, atCall, exVars>>
    /\ UNCHANGED auxVars

\* ---------------------------------------------------------------- bake_ipcc
\* bake_ipcc from its entry to the download_file call: the directories and
\* the three documents are created, then the ignored check (and the un-ignore
\* of retry mode), then the completed check.
bake_check ==
    /\ pc = "bake"
    /\ base' = TRUE
    /\ LET v == cur.version
           made == [fs EXCEPT ![v].dir = TRUE]
       IN IF is_firmware_version_ignored_raises(ignored)
          THEN \* TypeError -> except Exception: rmtree(version_path)
               /\ fs' = rmtree_version(v)
               /\ BakeReturn(FALSE, "raised")
               /\ UNCHANGED <<ignored, fw, dlVars, exVars>>
          ELSE IF is_firmware_version_ignored(ignored, v) /\ ~retry
          THEN /\ fs' = rmtree_version(v)
               /\ BakeReturn(FALSE, "skipped_ignored")
               /\ UNCHANGED <<ignored, fw, dlVars, exVars>>
          ELSE /\ ignored' = IF is_firmware_version_ignored(ignored, v)
                             THEN put_unignored(ignored, v)
                             ELSE ignored
               /\ IF is_firmware_version_done(fw, v)
                  THEN /\ fs' = made
                       /\ BakeReturn(FALSE, "skipped_done")
                  ELSE /\ fs' = made
                       /\ pc' = "dl_ready"
                       /\ last' = "none"
                       /\ UNCHANGED processed_count
               /\ UNCHANGED <<fw, dlVars, exVars>>
    /\ UNCHANGED <<retry, git_mode, queue, cur, calls, atCall>>
    /\ UNCHANGED auxVars


\* ------------------------------------------------------------ download_file
\* download_file returns: the caller finds the result at "dl_ret".
DlReturn(result) ==
    /\ dlResult' = result
    /\ pc' = "dl_ret"

\* The for loop's `continue` after a range-not-satisfiable error: the partial
\* file is deleted and last_content_length forgotten.  After the last attempt
\* the loop ends without a break and the final hash check opens a file that is
\* not there: FileNotFoundError leaves download_file as an exception.
Retry416(dirs) ==
    /\ fs' = [dirs EXCEPT ![cur.version] = cleanup_file(@)]
    /\ lcl' = None
    /\ IF attempt < MAX_RETRIES
       THEN /\ attempt' = attempt + 1
            /\ pc' = "dl_req"
            /\ UNCHANGED dlResult
       ELSE /\ DlReturn("raise")
            /\ UNCHANGED attempt

\* Any other Error of get_response: the partial file is deleted and the error
\* returned.
Abort(dirs) ==
    /\ fs' = [dirs EXCEPT ![cur.version] = cleanup_file(@)]
    /\ DlReturn("error")
    /\ UNCHANGED <<attempt, lcl>>

\* "416" in response.error: the text of a ClientResponseError holds the
\* status, the message and the url.
ErrorTextHas416(status, firmware) == status = 416 \/ firmware.url416

\* download_file up to its loop: is_file_ready returns the existing file when
\* a digest matches, and deletes it otherwise.
download_start ==
    /\ pc = "dl_ready"
    /\ reqs' = 0
    /\ headers' = None
    /\ resp' = NoResp
    /\ body' = <<>>
    /\ LET v == cur.version
           d == fs[v]
       IN IF d.ipsw /\ compare_either_hash(d.data, cur)
          THEN /\ DlReturn("ok")
               /\ UNCHANGED <<fs, attempt, lcl>>
          ELSE /\ fs' = [fs EXCEPT ![v] = cleanup_file(@)]
               /\ attempt' = 1
               /\ lcl' = None
               /\ pc' = "dl_req"
               /\ UNCHANGED dlResult
    /\ UNCHANGED <<runVars, cur, ledgerVars, calls, atCall, exVars, last>>
    /\ UNCHANGED auxVars

\* get_response returns "already good" without a request when the local file
\* is at least as long as the last known remote length.
already_good ==
    /\ pc = "dl_req"
    /\ lcl # None
    /\ Size(fs[cur.version]) >= lcl
    /\ DlReturn("ok")
    /\ UNCHANGED <<runVars, cur, ledgerVars, fs, attempt, lcl, body, reqs,
                   headers, resp, calls, atCall, exVars, last>>
    /\ UNCHANGED auxVars

Sends(d) == ~(lcl # None /\ Size(d) >= lcl)

\* get_response: headers["Range"] = f"bytes={file_size}" when file_size > 0,
\* and the request goes out.
Request(d) ==
    /\ Sends(d)
    /\ reqs' = reqs + 1
    /\ headers' = IF Size(d) > 0 THEN Size(d) ELSE None

Answer(kind, status) == [kind |-> kind, status |-> status]

\* get_response: the request is answered 200 with the whole object; the
\* Content-Length header is present or absent (read as 0).
response_200 ==
    /\ pc = "dl_req"
    /\ Request(fs[cur.version])
    /\ resp' = Answer("ok", 200)
    /\ \E cl \in {RemoteLen, 0} : lcl' = cl
    /\ body' = Remote
    /\ pc' = "dl_write"
    /\ UNCHANGED <<runVars, cur, ledgerVars, fs, attempt, dlResult, calls,
                   atCall, exVars, last>>
    /\ UNCHANGED auxVars

\* get_response: a Range header was sent (a partial file exists) and the
\* server answers 206 with the remainder; Content-Range gives the total.
response_206 ==
    /\ pc = "dl_req"
    /\ Request(fs[cur.version])
    /\ resp' = Answer("ok", 206)
    /\ Size(fs[cur.version]) > 0
    /\ Size(fs[cur.version]) < RemoteLen
    /\ lcl' = RemoteLen
    /\ body' = SubSeq(Remote, Size(fs[cur.version]) + 1, RemoteLen)
    /\ pc' = "dl_write"
    /\ UNCHANGED <<runVars, cur, ledgerVars, fs, attempt, dlResult, calls,
                   atCall, exVars, last>>
    /\ UNCHANGED auxVars

\* get_response: raise_for_status raises ClientResponseError.  416 answers a
\* Range request; 503 records the version as ignored, removes its directory
\* and, in git mode, publishes (a failing git command raises); 404 stands for
\* every other error status.
response_error ==
    /\ pc = "dl_req"
    /\ Request(fs[cur.version])
    /\ \E status \in {416, 503, 404} :
        /\ status = 416 => Size(fs[cur.version]) > 0
        /\ resp' = Answer("status_error", status)
        /\ IF status = 503
           THEN /\ ignored' = put_ignored(ignored, cur.version)
                /\ \E published \in BOOLEAN :
                    /\ ~git_mode => published
                    /\ IF ~published
                       THEN /\ fs' = rmtree_version(cur.version)
                            /\ DlReturn("raise")
                            /\ UNCHANGED <<attempt, lcl>>
                       ELSE IF ErrorTextHas416(status, cur)
                            THEN Retry416(rmtree_version(cur.version))
                            ELSE Abort(rmtree_version(cur.version))
           ELSE /\ UNCHANGED ignored
                /\ IF ErrorTextHas416(status, cur)
                   THEN Retry416(fs)
                   ELSE Abort(fs)
    /\ UNCHANGED <<runVars, cur, base, fw, body, calls, atCall, exVars, last>>
    /\ UNCHANGED auxVars

\* get_response: the request fails without a response: aiohttp.ClientError,
\* or the ClientTimeout firing (except Exception).  download_file deletes
\* the partial file and returns the error.
transport_error ==
    /\ pc = "dl_req"
    /\ Request(fs[cur.version])
    /\ \E kind \in {"client_error", "timeout"} : resp' = Answer(kind, 0)
    /\ Abort(fs)
    /\ UNCHANGED <<runVars, cur, ledgerVars, body, calls, atCall, exVars, last>>
    /\ UNCHANGED auxVars

\* A final hash check that fails the call on a mismatch.
final_hash_check_strict(matches) == IF matches THEN "ok" ELSE "error"

\* download_file after the loop: a mismatch of both digests is logged and
\* Ok(file_path) returned all the same.
final_hash_check(matches) == "ok"

\* write_with_progress: the body is written at the offset of the existing
\* size.  Either all of it arrives (break, final hash check, Ok) or the stream
\* fails after k bytes: another attempt, or after MAX_RETRIES the file is
\* deleted and an Error returned.
write_with_progress ==
    /\ pc = "dl_write"
    /\ LET v == cur.version
           d == fs[v]
       IN \E k \in 0..Len(body) :
           LET grown == [d EXCEPT !.dir = TRUE, !.ipsw = TRUE,
                                  !.data = d.data \o SubSeq(body, 1, k)]
           IN IF k = Len(body)
              THEN /\ fs' = [fs EXCEPT ![v] = grown]
                   /\ DlReturn(final_hash_check(
                                   compare_either_hash(grown.data, cur)))
                   /\ UNCHANGED attempt
              ELSE IF attempt = MAX_RETRIES
              THEN /\ fs' = [fs EXCEPT ![v] = cleanup_file(grown)]
                   /\ DlReturn("error")
                   /\ UNCHANGED attempt
              ELSE /\ fs' = [fs EXCEPT ![v] = grown]
                   /\ attempt' = attempt + 1
                   /\ pc' = "dl_req"
                   /\ UNCHANGED dlResult
    /\ body' = <<>>
    /\ UNCHANGED <<runVars, cur, ledgerVars, lcl, reqs, headers, resp, calls,
                   atCall, exVars, last>>
    /\ UNCHANGED auxVars


\* -------------------------------------------------- extract_the_biggest_dmg
\* A zip entry: the suffix of its name, its size, and what the image holds
\* ("plain": a mountable image; "legacy": encrypted with the per-chunk key
\* scheme, which 7z cannot open as [Dmg]).
Entry(suffix, size, enc) == [suffix |-> suffix, size |-> size, enc |-> enc]

\* The archives the catalog's urls serve.
Archives ==
    { << Entry("other", 2, "plain") >>,
      << Entry("dmg", 1, "plain"), Entry("other", 2, "plain") >>,
      << Entry("dmg", 1, "plain"), Entry("dmg", 2, "legacy") >>,
      << Entry("dmg", 1, "legacy"), Entry("aea", 2, "plain") >> }

IsImage(e) == e.suffix \in {"dmg", "aea"}

\* A choice that takes the first candidate whatever its size.
FirstImage(cands) == cands[1]

\* max(candidates, key=file_size): the first entry of the greatest size.
Biggest(cands) ==
    cands[CHOOSE i \in 1..Len(cands) :
            /\ \A j \in 1..Len(cands) : cands[j].size <= cands[i].size
            /\ \A j \in 1..(i - 1) : cands[j].size < cands[i].size]

\* get_biggest_dmg_file_in_zip: max() of an empty list raises ValueError, so
\* the `if not biggest_dmg` branch is never taken.
get_biggest_raises(zip) == SelectSeq(zip, IsImage) = <<>>

get_biggest_dmg_file_in_zip(zip) == Biggest(SelectSeq(zip, IsImage))

\* A finally block that unlinks the image paths and leaves the archive.
CleanupImagesOnly(d, paths) ==
    LET left == d.imgs \ paths
    IN [d EXCEPT !.imgs = left,
                 !.kind = IF "dmg" \in left THEN d.kind ELSE "none"]

\* The finally block of every frame: the frame's image path and the archive
\* are unlinked.
Cleanup(d, paths) ==
    LET left == d.imgs \ paths
    IN [d EXCEPT !.imgs = left,
                 !.kind = IF "dmg" \in left THEN d.kind ELSE "none",
                 !.ipsw = FALSE, !.data = <<>>]

\* extract_the_biggest_dmg returns through every frame's finally; result is
\* "ok" or names the Error returned.
ExReturn(result, d) ==
    /\ fs' = [fs EXCEPT ![cur.version] = Cleanup(d, frames \cup {path'})]
    /\ exResult' = result
    /\ pc' = "ex_ret"

\* Locate and materialize: the zip test, the biggest image entry, and its
\* extraction unless the file is there or skip_extraction is set.  The stream
\* copy may fail part-way (except Exception as zip_error).
extract_locate ==
    /\ pc = "ex_locate"
    /\ LET v == cur.version
           d == fs[v]
       IN IF ~is_zipfile(d)
          THEN /\ path' = "none"
               /\ ExReturn("not_zip", d)
               /\ UNCHANGED entries
          ELSE \E zip \in Archives :
               /\ entries = <<>> \/ entries = zip
               /\ entries' = zip
               /\ IF get_biggest_raises(zip)
                  THEN /\ path' = "none"
                       /\ ExReturn("zip_error", d)
                  ELSE LET e == get_biggest_dmg_file_in_zip(zip)
                       IN /\ path' = e.suffix
                          /\ IF e.suffix \notin d.imgs /\ ~skip
                             THEN \E copied \in BOOLEAN :
                                   LET made == [d EXCEPT
                                         !.imgs = @ \cup {e.suffix},
                                         !.kind = IF e.suffix = "dmg"
                                                  THEN (IF copied THEN e.enc ELSE "garbage")
                                                  ELSE @]
                                   IN IF copied
                                      THEN /\ fs' = [fs EXCEPT ![v] = made]
                                           /\ pc' = "ex_aea"
                                           /\ UNCHANGED exResult
                                      ELSE ExReturn("zip_error", made)
                             ELSE /\ pc' = "ex_aea"
                                  /\ UNCHANGED <<fs, exResult>>
    /\ UNCHANGED <<runVars, cur, ledgerVars, dlVars, calls, atCall, frames, skip,
                   has_parent, unpacks, lookups, decrypts, last>>
    /\ UNCHANGED auxVars

\* Classify: a path with the .aea suffix goes through handle_aea_dmg (the
\* external tool unwraps x.dmg.aea into x.dmg, or fails); then the image must
\* exist, and system_has_parent probes it.  The tool is taken to be atomic:
\* when it fails it leaves no x.dmg behind.
extract_aea ==
    /\ pc = "ex_aea"
    /\ LET v == cur.version
           d == fs[v]
       IN IF path = "aea"
          THEN \E unwrapped \in BOOLEAN :
                /\ unwrapped => "aea" \in d.imgs
                /\ IF unwrapped
                   THEN /\ path' = "dmg"
                        /\ fs' = [fs EXCEPT ![v] =
                                    [d EXCEPT !.imgs = (@ \ {"aea"}) \cup {"dmg"},
                                              !.kind = "plain"]]
                        /\ \E hp \in BOOLEAN : has_parent' = hp
                        /\ pc' = "ex_unpack"
                        /\ UNCHANGED exResult
                   ELSE /\ path' = path
                        /\ ExReturn("aea_failed", d)
                        /\ UNCHANGED has_parent
          ELSE IF path \notin d.imgs
          THEN /\ path' = path
               /\ ExReturn("not_found", d)
               /\ UNCHANGED has_parent
          ELSE /\ \E hp \in BOOLEAN : has_parent' = hp
               /\ pc' = "ex_unpack"
               /\ UNCHANGED <<fs, path, exResult>>
    /\ UNCHANGED <<runVars, cur, ledgerVars, dlVars, calls, atCall, entries, frames,
                   skip, unpacks, lookups, decrypts, last>>
    /\ UNCHANGED auxVars

\* Unpack: 7z x on the image.  A plain image unpacks (or 7z fails otherwise);
\* an image that is not a disk image to 7z (still encrypted, or decrypted
\* with a key that does not fit) gives "Cannot open the file as [Dmg]
\* archive", which leads to decrypt_dmg.
extract_unpack ==
    /\ pc = "ex_unpack"
    /\ unpacks' = unpacks + 1
    /\ LET d == fs[cur.version]
       IN \E out \in {"ok", "cannot_open", "failed"} :
           /\ out = "ok" => d.kind = "plain"
           /\ out = "cannot_open" => d.kind \in {"legacy", "garbage"}
           /\ IF out = "cannot_open"
              THEN /\ pc' = "ex_decrypt"
                   /\ UNCHANGED <<fs, path, exResult>>
              ELSE /\ path' = path
                   /\ ExReturn(IF out = "ok" THEN "ok" ELSE "failed_7z", d)
    /\ UNCHANGED <<runVars, cur, ledgerVars, dlVars, calls, atCall, entries, frames,
                   skip, has_parent, lookups, decrypts, last>>
    /\ UNCHANGED auxVars

\* Fallback: decrypt_dmg reads BuildTrain from the archive's manifest, looks
\* the key up (_fetch_key) and runs vfdecrypt, which replaces the image by
\* its output; then extract_the_biggest_dmg calls itself with
\* skip_extraction=True.  vfdecrypt does not verify the key: a key that does
\* not fit yields an image 7z still cannot open.
decrypt_dmg ==
    /\ pc = "ex_decrypt"
    /\ LET v == cur.version
           d == fs[v]
       IN \E out \in {"no_build_train", "no_key", "vfdecrypt_failed", "decrypted"} :
           /\ lookups' = IF out = "no_build_train" THEN lookups ELSE lookups + 1
           /\ IF out = "decrypted"
              THEN /\ decrypts < MaxDepth
                   /\ decrypts' = decrypts + 1
                   /\ \E fits \in BOOLEAN :
                       fs' = [fs EXCEPT ![v].kind =
                                IF fits /\ d.kind = "legacy" THEN "plain" ELSE "garbage"]
                   /\ frames' = frames \cup {path}
                   /\ skip' = TRUE
                   /\ pc' = "ex_locate"
                   /\ UNCHANGED <<path, exResult>>
              ELSE /\ path' = path
                   /\ ExReturn(out, d)
                   /\ UNCHANGED <<decrypts, frames, skip>>
    /\ UNCHANGED <<runVars, cur, ledgerVars, dlVars, calls, atCall, entries,
                   has_parent, unpacks, last>>
    /\ UNCHANGED auxVars

\* ------------------------------------------------------ bake_ipcc, continued
\* After download_file: an Error result (raise RuntimeError) or an exception
\* reaches except Exception (rmtree(version_path), return False); Ok calls
\* extract_the_biggest_dmg.
bake_after_download ==
    /\ pc = "dl_ret"
    /\ calls = 0
    /\ IF dlResult = "ok"
       THEN /\ pc' = "ex_locate"
            /\ entries' = <<>>
            /\ path' = "none"
            /\ frames' = {}
            /\ skip' = FALSE
            /\ unpacks' = 0
            /\ lookups' = 0
            /\ decrypts' = 0
            /\ exResult' = "none"
            /\ UNCHANGED <<fs, has_parent, processed_count, last>>
       ELSE /\ fs' = rmtree_version(cur.version)
            /\ BakeReturn(FALSE, "download_failed")
            /\ UNCHANGED exVars
    /\ DlLocalsGone
    /\ UNCHANGED <<retry, git_mode, queue, cur, ledgerVars, calls, atCall>>
    /\ UNCHANGED auxVars

\* After extract_the_biggest_dmg: an Error ends in except Exception.  Ok goes
\* on to bundles_glob, delete_non_bundles (which fails when has_parent is set
\* and no nested System folder was unpacked), tar_and_hash_bundles and the two
\* put_metadata calls; then True.  put_metadata does not raise: a write that
\* fails (malformed JSON already in the document, an I/O error) comes back
\* as an Error value, which bake_ipcc does not look at.
bake_finish ==
    /\ pc = "ex_ret"
    /\ LET v == cur.version
           d == fs[v]
       IN IF exResult # "ok"
          THEN /\ fs' = rmtree_version(v)
               /\ BakeReturn(FALSE, exResult)
               /\ UNCHANGED fw
          ELSE LET nb == Bundles(v)
               IN
                IF has_parent /\ nb = 0
                THEN /\ fs' = rmtree_version(v)
                     /\ BakeReturn(FALSE, "no_system_folder")
                     /\ UNCHANGED fw
                ELSE /\ fs' = [fs EXCEPT ![v] =
                                 [d EXCEPT !.dir = TRUE,
                                           !.tars = nb,
                                           !.manifest = @ + nb]]
                     /\ \E written \in put_metadata_outcomes(v) :
                          fw' = IF written THEN put_completed(fw, v) ELSE fw
                     /\ BakeReturn(TRUE, "completed")
    /\ ExLocalsGone
    /\ UNCHANGED <<retry, git_mode, queue, cur, base, ignored, dlVars,
                   calls, atCall>>
    /\ UNCHANGED auxVars

\* ------------------------------------------------------------ specification
Download ==
    \/ download_start
    \/ already_good
    \/ response_200
    \/ response_206
    \/ response_error
    \/ transport_error
    \/ write_with_progress

Next ==
    \/ StartRun
    \/ LoopNext
    \/ EndRun
    \/ Publish
    \/ bake_check
    \/ Download
    \/ bake_after_download
    \/ extract_locate
    \/ extract_aea
    \/ extract_unpack
    \/ decrypt_dmg
    \/ bake_finish

Spec == Init /\ [][Next]_vars

\* ------------------------------------------- download_file, called on its own
\* download_file called again and again for one catalog record on one
\* directory.  The record's digests may or may not be those of the remote
\* content, its url may or may not hold the digits 416, and the directory
\* starts without the archive or with a prefix of it (an earlier, interrupted
\* download).
LocalFiles ==
    {[EmptyDir EXCEPT !.dir = TRUE]} \cup
    {[EmptyDir EXCEPT !.dir = TRUE, !.ipsw = TRUE, !.data = SubSeq(Remote, 1, k)] :
        k \in 0..RemoteLen}

InitDownload ==
    /\ InitCommon
    /\ pc = "dl_idle"
    /\ \E d \in LocalFiles : fs = [v \in Versions |-> IF v = 1 THEN d ELSE EmptyDir]
    /\ DocAtRest
    /\ VfAtRest
    /\ InstallAtRest

\* The caller: picks the record on the first call, and remembers what the
\* call starts from.
call_download ==
    /\ pc \in {"dl_idle", "dl_ret"}
    /\ calls < MaxCalls
    /\ calls' = calls + 1
    /\ IF calls = 0
       THEN /\ \E s, m, u \in BOOLEAN : cur' = Firmware(1, s, m, u)
            /\ \E g \in BOOLEAN : git_mode' = g
            /\ base' = TRUE
       ELSE UNCHANGED <<cur, git_mode, base>>
    /\ atCall' = [prev |-> dlResult, prevReqs |-> reqs,
                  ipsw |-> fs[1].ipsw, data |-> fs[1].data]
    /\ DlLocalsGone
    /\ pc' = "dl_ready"
    /\ UNCHANGED <<retry, queue, processed_count, ignored, fw, fs, exVars, last>>
    /\ UNCHANGED auxVars

NextDownload ==
    \/ call_download
    \/ Download

SpecDownload == InitDownload /\ [][NextDownload]_vars

\* ------------------------------------------- main: the tasks and the limiter
\* main creates one fetch_and_bake task per entity in a TaskGroup; all share
\* devices_semaphore = asyncio.Semaphore(args.concurrent_jobs).  The whole
\* body of fetch_and_bake is inside `async with devices_semaphore`, whose
\* exit gives the permit back however the body ends.
Inside == {t \in Tasks : tasks[t] = "inside"}

\* async with devices_semaphore: __aenter__ (acquire) waits for a permit.
acquire ==
    \E t \in Tasks :
        /\ tasks[t] = "created"
        /\ devices_semaphore > 0
        /\ devices_semaphore' = devices_semaphore - 1
        /\ tasks' = [tasks EXCEPT ![t] = "inside"]
        /\ UNCHANGED <<restVars, gitVars>>

\* The body ends and __aexit__ releases the permit.
Leave(t, how) ==
    /\ tasks[t] = "inside"
    /\ git[t] = NoGit
    /\ install[t] = "none"
    /\ devices_semaphore' = devices_semaphore + 1
    /\ tasks' = [tasks EXCEPT ![t] = how]
    /\ UNCHANGED <<restVars, gitVars>>

\* A body that ends without giving the permit back.
task_raises_keeps_permit ==
    \E t \in Tasks :
        /\ tasks[t] = "inside"
        /\ tasks' = [tasks EXCEPT ![t] = "raised"]
        /\ UNCHANGED <<devices_semaphore, restVars, gitVars>>

\* The catalog request is not answered 200, or no firmware is left: return.
task_returns_early == \E t \in Tasks : Leave(t, "returned")

\* The loop over the firmwares ran to its end.
task_ends == \E t \in Tasks : Leave(t, "ended")

\* An exception in the body: caught and logged by except Exception (or, a
\* cancellation, passing through); the task is over.
task_raises == \E t \in Tasks : Leave(t, "raised")

NextLimiter ==
    \/ acquire
    \/ task_returns_early
    \/ task_ends
    \/ task_raises

SpecLimiter == Init /\ [][NextLimiter]_vars

\* ---------------------------------------------- git: the serialized publish
\* process_files_with_git runs four commands, one after the other, inside
\* `async with GIT_LOCK`.  It is called by fetch_and_bake after a completed
\* version (message "added ...") and by get_response after a 503 in git mode
\* (message "ignored ..."), in both cases by a task that is inside
\* fetch_and_bake.
Commands == <<"sparse-checkout", "add", "commit", "push">>

Messages == {"added", "ignored"}

InFlight == {t \in Tasks : git[t].at \in {Commands[i] : i \in 1..Len(Commands)}}

IndexOf(command) == CHOOSE i \in 1..Len(Commands) : Commands[i] = command

\* The call reaches `async with GIT_LOCK` and waits there.
process_files_with_git ==
    \E t \in Tasks, m \in Messages :
        /\ tasks[t] = "inside"
        /\ git[t] = NoGit
        /\ install[t] = "none"
        /\ calls_left > 0
        /\ calls_left' = calls_left - 1
        /\ git' = [git EXCEPT ![t] = [at |-> "waiting", message |-> m]]
        /\ UNCHANGED <<GIT_LOCK, pipelineVars, docVars, vfVars, installVars, limiterVars>>

\* GIT_LOCK.__aenter__: the lock is free and the task takes it.
lock_acquire ==
    \E t \in Tasks :
        /\ git[t].at = "waiting"
        /\ ~GIT_LOCK
        /\ GIT_LOCK' = TRUE
        /\ git' = [git EXCEPT ![t].at = Commands[1]]
        /\ UNCHANGED <<restVars, limiterVars>>

\* await run_command(...) returns: the next command, or after the push the
\* end of the block, where __aexit__ releases the lock.
run_command_ok ==
    \E t \in InFlight :
        LET i == IndexOf(git[t].at)
        IN /\ IF i < Len(Commands)
              THEN /\ git' = [git EXCEPT ![t].at = Commands[i + 1]]
                   /\ UNCHANGED GIT_LOCK
              ELSE /\ git' = [git EXCEPT ![t] = NoGit]
                   /\ GIT_LOCK' = FALSE
           /\ UNCHANGED <<restVars, limiterVars>>

\* A failing command that leaves the lock held.
run_command_raises_keeps_lock ==
    \E t \in InFlight :
        /\ git' = [git EXCEPT ![t] = NoGit]
        /\ UNCHANGED <<GIT_LOCK, restVars, limiterVars>>

\* run_command raises RuntimeError on a non-zero return code: the exception
\* leaves the `async with` block, whose __aexit__ releases the lock.
run_command_raises ==
    \E t \in InFlight :
        /\ git' = [git EXCEPT ![t] = NoGit]
        /\ GIT_LOCK' = FALSE
        /\ UNCHANGED <<restVars, limiterVars>>

NextPublish ==
    \/ acquire
    \/ task_returns_early
    \/ task_ends
    \/ task_raises
    \/ process_files_with_git
    \/ lock_acquire
    \/ run_command_ok
    \/ run_command_raises

SpecPublish == Init /\ [][NextPublish]_vars

\* ------------------------------------------------- fs: the ledger documents
\* The operations of utils/fs.py on one ledger document, taken by themselves:
\* the document starts as any text within the bounds and the operations are
\* applied to it in any order.
RECURSIVE Lists(_)
Lists(n) ==
    IF n = 0 THEN {<<>>}
    ELSE Lists(n - 1) \cup {Append(l, v) : l \in {m \in Lists(n - 1) : Len(m) = n - 1}, v \in Versions}

Keys ==
    {NoKey, [has |-> TRUE, null |-> TRUE, list |-> <<>>]}
        \cup {[has |-> TRUE, null |-> FALSE, list |-> l] : l \in Lists(MaxEntries)}

Documents ==
    {Text(k, EmptyMetadata) : k \in {"missing", "empty", "blank", "malformed"}}
        \cup {Text("json", [ignored |-> a, fw |-> b, updated_at |-> TRUE]) :
                a \in Keys, b \in Keys}

\* _get_metadata_json: FileNotFoundError and JSONDecodeError give {}, and so
\* does the empty text (json.loads(text or "{}")); white space only is not
\* empty and fails to parse, which gives {} as well.
get_metadata_json(d) == IF d.kind = "json" THEN d.metadata ELSE EmptyMetadata

\* metadata.get(key, []): the stored value, null included, or the default.
metadata_get(key) ==
    IF key.has THEN [null |-> key.null, list |-> key.list] ELSE EmptyIgnored

\* A put_metadata that takes a missing or empty document for an error.
read_document_strict(d) ==
    [error |-> d.kind # "json", metadata |-> get_metadata_json(d)]

\* put_metadata's own read: FileNotFoundError gives {}, text that is empty
\* after strip() gives {}, text that does not parse leaves through
\* except json.JSONDecodeError with an Error.
read_document(d) ==
    [error |-> d.kind = "malformed", metadata |-> get_metadata_json(d)]

\* (acc or []): null, a missing key and the empty list all give [].
OrEmpty(key) == IF key.has /\ ~key.null THEN key.list ELSE <<>>

\* What an operation gave back, with the kind of text it found.
Outcome(op, raised, error, value) ==
    [op |-> op, found |-> document.kind, raised |-> raised, error |-> error,
     value |-> value]

InitLedger ==
    /\ InitCommon
    /\ pc = "idle"
    /\ fs = [v \in Versions |-> EmptyDir]
    /\ VfAtRest
    /\ InstallAtRest
    /\ document \in Documents
    /\ answer = NoAnswer

\* is_firmware_version_ignored(file_path, firm_version)
ledger_is_ignored ==
    \E v \in Versions :
        LET ign == metadata_get(get_metadata_json(document).ignored)
        IN /\ answer' = IF is_firmware_version_ignored_raises(ign)
                        THEN Outcome("is_ignored", TRUE, FALSE, FALSE)
                        ELSE Outcome("is_ignored", FALSE, FALSE,
                                    is_firmware_version_ignored(ign, v))
           /\ UNCHANGED <<document, pipelineVars, limiterVars, gitVars, vfVars, installVars, calls_left>>

\* is_firmware_version_done(file_path, firm_version)
ledger_is_done ==
    \E v \in Versions :
        LET done == metadata_get(get_metadata_json(document).fw)
        IN /\ answer' = IF done.null
                        THEN Outcome("is_done", TRUE, FALSE, FALSE)
                        ELSE Outcome("is_done", FALSE, FALSE,
                                    is_firmware_version_done(done.list, v))
           /\ UNCHANGED <<document, pipelineVars, limiterVars, gitVars, vfVars, installVars, calls_left>>

\* put_metadata(path, key, lambda acc: (acc or []) + [entry]) for the two
\* ledgers: the ignored list and the completed list.
ledger_put ==
    \E key \in {"ignored", "fw"}, v \in Versions :
        LET read == read_document(document)
            old == OrEmpty(read.metadata[key])
            new == IF key = "ignored"
                   THEN put_ignored(metadata_get(read.metadata[key]), v).list
                   ELSE put_completed(old, v)
        IN /\ Len(old) < MaxEntries
           /\ IF read.error
              THEN /\ answer' = Outcome("put_metadata", FALSE, TRUE, FALSE)
                   /\ UNCHANGED document
              ELSE /\ answer' = Outcome("put_metadata", FALSE, FALSE, FALSE)
                   /\ document' =
                        Text("json",
                             [read.metadata EXCEPT
                                ![key] = [has |-> TRUE, null |-> FALSE, list |-> new],
                                !.updated_at = TRUE])
           /\ UNCHANGED <<pipelineVars, limiterVars, gitVars, vfVars, installVars, calls_left>>

\* bake_ipcc in retry mode: when the version is found ignored,
\* put_metadata(path, "ignored", lambda f: (f or []).remove(version)).
ledger_unignore ==
    \E v \in Versions :
        LET ign == metadata_get(get_metadata_json(document).ignored)
            new == put_unignored(ign, v)
        IN /\ ~is_firmware_version_ignored_raises(ign)
           /\ is_firmware_version_ignored(ign, v)
           /\ answer' = Outcome("put_metadata", FALSE, FALSE, FALSE)
           /\ document' =
                Text("json",
                     [document.metadata EXCEPT
                        !.ignored = [has |-> TRUE, null |-> new.null, list |-> new.list],
                        !.updated_at = TRUE])
           /\ UNCHANGED <<pipelineVars, limiterVars, gitVars, vfVars, installVars, calls_left>>

NextLedger ==
    \/ ledger_is_ignored
    \/ ledger_is_done
    \/ ledger_put
    \/ ledger_unignore

SpecLedger == InitLedger /\ [][NextLedger]_vars

\* ----------------------------------------------------- vfdecrypt: decrypt_vf
\* decrypt_vf taken by itself.  A byte is a number below ByteValues and a
\* cipher block is BlockBytes bytes long; the keyed functions keep the shape
\* of the real ones: the digest is a function of the key and the message,
\* the block cipher a keyed permutation of blocks that mixes their bytes,
\* and xor the bytewise group operation that CBC undoes with the preceding
\* cipher block.
Bytes == 0..(ByteValues - 1)

RECURSIVE ByteSeqs(_)
ByteSeqs(n) ==
    IF n = 0 THEN {<<>>}
    ELSE ByteSeqs(n - 1) \cup {Append(s, b) : s \in {m \in ByteSeqs(n - 1) : Len(m) = n - 1}, b \in Bytes}

KEY_LENGTH == CIPHER_KEY_LENGTH + MD_LENGTH

\* A size in bytes: n * 1024 ** exp.  The sizes read from an image have
\* exp = 0.
ByteCount(n, exp) == [n |-> n, exp |-> exp]

\* CHUNK_SIZE = 1024**5
CHUNK_SIZE == ByteCount(1, CHUNK_SIZE_EXPONENT)

\* min(chunk_size, remaining) for a remaining count of bytes of an image.
MinSize(chunk_size, remaining) ==
    IF chunk_size.exp > 0 \/ remaining < chunk_size.n
    THEN remaining ELSE chunk_size.n

\* (data_size + chunk_size - 1) // chunk_size
CeilDiv(data_size, chunk_size) ==
    IF chunk_size.exp > 0
    THEN (IF data_size > 0 THEN 1 ELSE 0)
    ELSE (data_size + chunk_size.n - 1) \div chunk_size.n

\* hmac.new(hmac_key, i.to_bytes(4, "big"), hashlib.sha1).digest()[:16]
hmac_digest(hmac_key, i) ==
    [j \in 1..BlockBytes |-> (hmac_key * (i + 1) + i + j) % ByteValues]

\* The block decryption of AES under aes_key.
aes_decrypt_block(aes_key, block) ==
    [j \in 1..BlockBytes |->
        (block[BlockBytes + 1 - j] + ByteValues - aes_key) % ByteValues]

xor(a, b) == [j \in 1..BlockBytes |-> (a[j] + ByteValues - b[j]) % ByteValues]

BlockOf(data, k) == SubSeq(data, (k - 1) * BlockBytes + 1, k * BlockBytes)

RECURSIVE Flatten(_)
Flatten(blocks) ==
    IF blocks = <<>> THEN <<>> ELSE Head(blocks) \o Flatten(Tail(blocks))

\* AES.new(aes_key, AES.MODE_CBC, iv).decrypt(data), for data of whole blocks.
cbc_decrypt(aes_key, iv, data) ==
    Flatten([k \in 1..(Len(data) \div BlockBytes) |->
                xor(aes_decrypt_block(aes_key, BlockOf(data, k)),
                    IF k = 1 THEN iv ELSE BlockOf(data, k - 1))])

\* pad = (-n) % CIPHER_BLOCKSIZE; mv[n : n + pad] = b"\x00" * pad
ZeroPad(raw) ==
    raw \o [j \in 1..((BlockBytes - (Len(raw) % BlockBytes)) % BlockBytes) |-> 0]

\* plain[:size]
Take(s, size) == SubSeq(s, 1, IF size < Len(s) THEN size ELSE Len(s))

\* _precompute_chunk_ivs: ivs[i] for i in range(max_chunks) (here from 1).
precompute_chunk_ivs(hmac_key, max_chunks) ==
    [i \in 1..max_chunks |-> hmac_digest(hmac_key, i - 1)]

\* _determine_version: the first 8 bytes, then f.seek(-8, 2) and the last 8.
\* In a file shorter than 8 bytes the seek before the start raises OSError.
determine_version(sig) ==
    IF sig.head = "encrcdsa" THEN [ver |-> 2, error |-> "none"]
    ELSE IF sig.short THEN [ver |-> 0, error |-> "OSError"]
    ELSE IF sig.tail = "cdsaencr" THEN [ver |-> 1, error |-> "none"]
    ELSE [ver |-> 0, error |-> "Unknown header format"]

\* What the two magics of a file can be: a file shorter than 8 bytes holds
\* neither.
Signatures ==
    {[short |-> TRUE, head |-> "other", tail |-> "other"]}
        \cup [short : {FALSE}, head : {"encrcdsa", "other"},
              tail : {"cdsaencr", "other"}]

\* The key string: not hexadecimal, or decoding to some length; the two parts
\* are taken from a key of the right length only.
KeyStrings ==
    {[hex |-> FALSE, len |-> 0, aes_key |-> 0, hmac_key |-> 0]}
        \cup {[hex |-> TRUE, len |-> l, aes_key |-> 0, hmac_key |-> 0] :
                l \in {KEY_LENGTH - 1, KEY_LENGTH + 1}}
        \cup [hex : {TRUE}, len : {KEY_LENGTH}, aes_key : Bytes, hmac_key : Bytes]

\* The header of the image as decrypt_vf reads it.  V1: data_size is the file
\* size less the header and chunk_size is CHUNK_SIZE.  V2: datasize and
\* blocksize are header fields (hdr.blocksize or CHUNK_SIZE); the data the
\* file holds may be shorter than datasize.
Headers(sig, data) ==
    IF determine_version(sig).ver = 1
    THEN {[data_size |-> Len(data), chunk_size |-> CHUNK_SIZE]}
    ELSE IF determine_version(sig).ver = 2
    THEN [data_size : 0..MaxBytes,
          chunk_size : {CHUNK_SIZE} \cup {ByteCount(n, 0) : n \in 1..MaxBytes}]
    ELSE {[data_size |-> 0, chunk_size |-> ByteCount(0, 0)]}

\* The arguments of a call: the image (its magics, its header and the data
\* it holds), the key string and the output file as the call finds it.
Calls ==
    {c \in [sig : Signatures,
            hdr : [data_size : 0..MaxBytes,
                   chunk_size : {CHUNK_SIZE} \cup {ByteCount(n, 0) : n \in 0..MaxBytes}],
            data : ByteSeqs(MaxBytes),
            key : KeyStrings,
            path_out : {NoFile, [exists |-> TRUE, data |-> <<0>>]}] :
        c.hdr \in Headers(c.sig, c.data)}

InitVf ==
    /\ InitCommon
    /\ pc = "idle"
    /\ fs = [v \in Versions |-> EmptyDir]
    /\ DocAtRest
    /\ InstallAtRest
    /\ args \in Calls
    /\ vf = [NoVf EXCEPT !.pc = "start", !.path_out = args.path_out]

\* max_chunks = (data_size + chunk_size - 1) // chunk_size
max_chunks == CeilDiv(args.hdr.data_size, args.hdr.chunk_size)

\* _decrypt_image up to its loop: the ivs are computed, the buffer of
\* chunk_size + CIPHER_BLOCKSIZE bytes is allocated, and path_out is opened
\* "wb", which creates or empties it.  Whether a buffer of CHUNK_SIZE bytes
\* can be had is up to the machine: bytearray raises MemoryError if not.
decrypt_image_entry ==
    \E allocated \in IF args.hdr.chunk_size.exp > 0 THEN BOOLEAN ELSE {TRUE} :
        IF allocated
        THEN vf' = [vf EXCEPT
                      !.pc = "chunks",
                      !.chunk_size = args.hdr.chunk_size,
                      !.buf = [chunk |-> args.hdr.chunk_size, more |-> BlockBytes],
                      !.ivs = precompute_chunk_ivs(args.key.hmac_key, max_chunks),
                      !.remaining = args.hdr.data_size,
                      !.path_out = [exists |-> TRUE, data |-> <<>>]]
        ELSE vf' = [vf EXCEPT !.pc = "raised", !.error = "MemoryError",
                              !.chunk_size = args.hdr.chunk_size]

Raise(error) == vf' = [vf EXCEPT !.pc = "raised", !.error = error]

\* A decrypt_vf that goes on to _decrypt_image whatever the key's length.
decrypt_vf_any_key_length ==
    /\ vf.pc = "start"
    /\ IF determine_version(args.sig).error # "none"
       THEN Raise(determine_version(args.sig).error)
       ELSE IF ~args.key.hex
       THEN Raise("ValueError")
       ELSE decrypt_image_entry
    /\ UNCHANGED <<args, pipelineVars, limiterVars, gitVars, docVars, installVars, calls_left>>

\* decrypt_vf: _determine_version raises on an unknown signature; the header
\* is read; bytes.fromhex raises on a string that is not hexadecimal; a
\* decoded key of another length than KEY_LENGTH raises; then _decrypt_image.
decrypt_vf ==
    /\ vf.pc = "start"
    /\ IF determine_version(args.sig).error # "none"
       THEN Raise(determine_version(args.sig).error)
       ELSE IF ~args.key.hex \/ args.key.len # KEY_LENGTH
       THEN Raise("ValueError")
       ELSE decrypt_image_entry
    /\ UNCHANGED <<args, pipelineVars, limiterVars, gitVars, docVars, installVars, calls_left>>

\* One turn of the loop with the iv `iv`: size = min(chunk_size, remaining);
\* readinto gives the bytes the file still holds, at most size; they are
\* padded with zeros to whole blocks and decrypted; plain[:size] is written.
Turn(iv) ==
    LET size == MinSize(vf.chunk_size, vf.remaining)
        left == Len(args.data) - vf.pos
        n == IF left < size THEN left ELSE size
        raw == SubSeq(args.data, vf.pos + 1, vf.pos + n)
        plain == cbc_decrypt(args.key.aes_key, iv, ZeroPad(raw))
        written == Take(plain, size)
    IN vf' = [vf EXCEPT !.i = @ + 1,
                        !.reads = @ + 1,
                        !.pos = @ + n,
                        !.remaining = @ - size,
                        !.chunks = Append(@, [size |-> size, raw |-> raw,
                                              written |-> written]),
                        !.path_out.data = @ \o written]

\* A loop body that keeps one cipher over the whole image: from the second
\* chunk on, the iv is the last cipher block of the chunk before.
decrypt_image_chunk_one_cipher ==
    /\ vf.pc = "chunks"
    /\ vf.i < max_chunks
    /\ LET before == IF vf.i = 0 THEN <<>> ELSE ZeroPad(vf.chunks[vf.i].raw)
       IN Turn(IF before = <<>>
               THEN vf.ivs[vf.i + 1]
               ELSE BlockOf(before, Len(before) \div BlockBytes))
    /\ UNCHANGED <<args, pipelineVars, limiterVars, gitVars, docVars, installVars, calls_left>>

\* One turn of _decrypt_image's loop: chunk i is read, decrypted by a new
\* cipher started at ivs[i], and written.
decrypt_image_chunk ==
    /\ vf.pc = "chunks"
    /\ vf.i < max_chunks
    /\ Turn(vf.ivs[vf.i + 1])
    /\ UNCHANGED <<args, pipelineVars, limiterVars, gitVars, docVars, installVars, calls_left>>

\* The loop is over and the files are closed.
decrypt_image_end ==
    /\ vf.pc = "chunks"
    /\ vf.i = max_chunks
    /\ vf' = [vf EXCEPT !.pc = "done"]
    /\ UNCHANGED <<args, pipelineVars, limiterVars, gitVars, docVars, installVars, calls_left>>

NextVf ==
    \/ decrypt_vf
    \/ decrypt_image_chunk
    \/ decrypt_image_end

SpecVf == InitVf /\ [][NextVf]_vars

\* --------------------------------------------------- helpers: install_ipsw
\* decrypt_dmg_aea calls install_ipsw when shutil.which("ipsw") is None.  The
\* call returns at once when install_done is set; otherwise it waits for
\* INSTALL_LOCK, looks at install_done again, downloads ipsw.deb unless the
\* file exists, runs `sudo dpkg -i` and deletes the file.  No line of the
\* program sets install_done.  run_command raises RuntimeError on a non-zero
\* return code, and the exception leaves the `async with` block.
Installing == {t \in Tasks : install[t] \in {"wget", "dpkg"}}

\* The caller finds no ipsw tool and awaits install_ipsw(): the first look at
\* install_done, then `async with INSTALL_LOCK`.
install_ipsw ==
    \E t \in Tasks :
        /\ tasks[t] = "inside"
        /\ git[t] = NoGit
        /\ install[t] = "none"
        /\ ~ipsw_tool
        /\ calls_left > 0
        /\ calls_left' = calls_left - 1
        /\ install' = [install EXCEPT ![t] = IF install_done THEN "none" ELSE "waiting"]
        /\ UNCHANGED <<INSTALL_LOCK, install_done, ipsw_deb, ipsw_tool, installers>>
        /\ UNCHANGED <<pipelineVars, limiterVars, gitVars, docVars, vfVars>>

\* INSTALL_LOCK.__aenter__, the second look at install_done, and
\* deb_path.exists().
install_lock_acquire ==
    \E t \in Tasks :
        /\ install[t] = "waiting"
        /\ ~INSTALL_LOCK
        /\ IF install_done
           THEN /\ install' = [install EXCEPT ![t] = "none"]
                /\ UNCHANGED INSTALL_LOCK
           ELSE /\ install' = [install EXCEPT ![t] = IF ipsw_deb THEN "dpkg" ELSE "wget"]
                /\ INSTALL_LOCK' = TRUE
        /\ UNCHANGED <<install_done, ipsw_deb, ipsw_tool, installers>>
        /\ UNCHANGED <<pipelineVars, limiterVars, gitVars, docVars, vfVars, calls_left>>

\* wget ... -O ipsw.deb returns 0: the file is there.
install_wget_ok ==
    \E t \in Tasks :
        /\ install[t] = "wget"
        /\ ipsw_deb' = TRUE
        /\ install' = [install EXCEPT ![t] = "dpkg"]
        /\ UNCHANGED <<INSTALL_LOCK, install_done, ipsw_tool, installers>>
        /\ UNCHANGED <<pipelineVars, limiterVars, gitVars, docVars, vfVars, calls_left>>

\* sudo dpkg -i ipsw.deb returns 0: the tool is installed, the file is
\* deleted, and the block ends.
install_dpkg_ok ==
    \E t \in Tasks :
        /\ install[t] = "dpkg"
        /\ ipsw_tool' = TRUE
        /\ installers' = installers \cup {t}
        /\ ipsw_deb' = FALSE
        /\ install' = [install EXCEPT ![t] = "none"]
        /\ INSTALL_LOCK' = FALSE
        /\ UNCHANGED install_done
        /\ UNCHANGED <<pipelineVars, limiterVars, gitVars, docVars, vfVars, calls_left>>

\* A failing command that leaves the lock held.
install_raises_keeps_lock ==
    \E t \in Installing, written \in BOOLEAN :
        /\ ipsw_deb' = (ipsw_deb \/ (install[t] = "wget" /\ written))
        /\ install' = [install EXCEPT ![t] = "none"]
        /\ UNCHANGED <<INSTALL_LOCK, install_done, ipsw_tool, installers>>
        /\ UNCHANGED <<pipelineVars, limiterVars, gitVars, docVars, vfVars, calls_left>>

\* wget or dpkg returns non-zero: run_command raises, __aexit__ releases the
\* lock; a failed wget may have written the file it was told to write.
install_raises ==
    \E t \in Installing, written \in BOOLEAN :
        /\ ipsw_deb' = (ipsw_deb \/ (install[t] = "wget" /\ written))
        /\ install' = [install EXCEPT ![t] = "none"]
        /\ INSTALL_LOCK' = FALSE
        /\ UNCHANGED <<install_done, ipsw_tool, installers>>
        /\ UNCHANGED <<pipelineVars, limiterVars, gitVars, docVars, vfVars, calls_left>>

\* ------------------------------------------------- main: the concurrent run
\* The entity tasks of main, each inside the limiter, publishing under
\* GIT_LOCK and installing under INSTALL_LOCK.
NextRun ==
    \/ acquire
    \/ task_ends
    \/ process_files_with_git
    \/ lock_acquire
    \/ run_command_ok
    \/ run_command_raises
    \/ install_ipsw
    \/ install_lock_acquire
    \/ install_wget_ok
    \/ install_dpkg_ok
    \/ install_raises

SpecRun == Init /\ [][NextRun]_vars

\* The event loop runs every coroutine that is ready, asyncio's Semaphore and
\* Lock wake their waiters, and every subprocess returns.
Fairness ==
    /\ WF_vars(acquire)
    /\ WF_vars(task_ends)
    /\ WF_vars(lock_acquire)
    /\ WF_vars(run_command_ok)
    /\ WF_vars(install_lock_acquire)
    /\ WF_vars(install_wget_ok)
    /\ WF_vars(install_dpkg_ok)

SpecRunFair == SpecRun /\ Fairness

\* ------------------------------------------------------------- properties
\* C1: after any sequence of pipeline runs, no version is at once in the
\* ignored list and in the completed list.
C1_LedgersDisjoint ==
    pc = "idle" =>
        \A v \in Versions : ~(InSeq(v, ignored.list) /\ InSeq(v, fw))

\* C2: when the archive holds no .dmg / .dmg.aea entry,
\* extract_the_biggest_dmg returns an error and the version is in the
\* ignored list.
C2_NoImageIsIgnored ==
    (pc = "ex_ret" /\ entries # <<>> /\ get_biggest_raises(entries)) =>
        (exResult # "ok" /\ InSeq(cur.version, ignored.list))

\* C3: for one archive there are at most two unpack invocations, at most one
\* key lookup and at most one fallback decryption.
C3_UnpackRetriedOnce ==
    unpacks <= 2 /\ lookups <= 1 /\ decrypts <= 1

C5_CompletedSkippedAndKept ==
    [][\A v \in Versions :
         (InSeq(v, fw) /\ ~retry) =>
            /\ InSeq(v, fw')
            /\ (pc = "bake" /\ cur.version = v) => pc' # "dl_ready"]_vars

\* C6: once a version has failed in a run, the rest of that run leaves the
\* completed entries and the directories of the entity's other versions as
\* they are.
C6_SiblingsIntact ==
    [][(pc = "loop" /\ last \notin {"none", "completed", "skipped_ignored",
                                     "skipped_done"}) =>
          \A w \in Versions \ {cur.version} :
              InSeq(w, fw) => (InSeq(w, fw') /\ fs'[w] = fs[w])]_vars

\* C7: un-ignoring a version in retry-ignored mode leaves every other ignored
\* version reported as ignored by is_firmware_version_ignored.
C7_UnignoreOnlyThat ==
    [][(pc = "bake" /\ retry /\ ~ignored.null
            /\ InSeq(cur.version, ignored.list)) =>
          \A w \in Versions \ {cur.version} :
              InSeq(w, ignored.list) =>
                  (~ignored'.null /\ InSeq(w, ignored'.list))]_vars

\* C8: with retry-ignored mode off, bake_ipcc on a version of the ignored
\* list issues no download request, discards the version's directory, leaves
\* both ledger lists unchanged and does not count the version as completed.
C8_IgnoredNotRetried ==
    [][(pc = "bake" /\ ~retry /\ ~ignored.null
            /\ InSeq(cur.version, ignored.list)) =>
          /\ pc' = "loop"
          /\ reqs' = 0
          /\ fs'[cur.version] = EmptyDir
          /\ ignored' = ignored
          /\ fw' = fw
          /\ processed_count' = processed_count]_vars

\* C8 happens: bake_ipcc has just skipped a version of the ignored list.
C8_SkippedIgnored ==
    /\ pc = "loop"
    /\ ~retry
    /\ last = "skipped_ignored"
    /\ InSeq(cur.version, ignored.list)
    /\ fs[cur.version] = EmptyDir

\* C9: when the key lookup finds no key, the version ends in the ignored
\* list and its working directory is discarded.
C9_NoKeyIsIgnored ==
    (pc = "loop" /\ last = "no_key") =>
        (InSeq(cur.version, ignored.list) /\ fs[cur.version] = EmptyDir)

C11_ResumeGivesRemote ==
    [][(/\ pc = "dl_write"
        /\ Size(fs[cur.version]) > 0
        /\ pc' = "dl_ret"
        /\ dlResult' = "ok") =>
          fs'[cur.version].data = Remote]_vars

\* C12: a download_file call that finds a partial file (a proper, non-empty
\* prefix of the remote object) keeps it, and its first request asks for the
\* bytes beyond the file's size.
C12_PartialFileResumed ==
    [][(/\ pc = "dl_ready"
        /\ fs[cur.version].ipsw
        /\ Len(fs[cur.version].data) \in 1..(RemoteLen - 1)
        /\ fs[cur.version].data = SubSeq(Remote, 1, Len(fs[cur.version].data))) =>
          /\ fs'[cur.version] = fs[cur.version]
          /\ pc' = "dl_req"]_vars

\* C13: when the remote size download_file learned is 0 (no Content-Length),
\* no attempt ends the call with success without a request.
C13_ZeroSizeIsUnknown ==
    [][(pc = "dl_req" /\ lcl = 0) =>
          ~(pc' = "dl_ret" /\ dlResult' = "ok" /\ reqs' = reqs)]_vars

\* C14: when the last attempt ends download_file without success (by a write
\* failure or by an error answer other than 503), the call returns an Error
\* value and no file is left.
C14_ExhaustedReturnsError ==
    [][(/\ pc \in {"dl_req", "dl_write"}
        /\ attempt = MAX_RETRIES
        /\ pc' = "dl_ret"
        /\ dlResult' # "ok"
        /\ ignored' = ignored) =>
          /\ dlResult' = "error"
          /\ ~fs'[cur.version].ipsw]_vars

\* C15: a 416 answer deletes the local file and forgets the remote length,
\* so that the next attempt asks for the whole object without a Range header;
\* and no answer other than 416 makes download_file go round the loop again.
C15_Only416StartsAfresh ==
    [][(pc = "dl_req" /\ reqs' = reqs + 1) =>
          /\ resp'.status = 416 =>
                /\ ~fs'[cur.version].ipsw
                /\ lcl' = None
                /\ attempt < MAX_RETRIES => pc' = "dl_req"
          /\ pc' = "dl_req" => resp'.status = 416]_vars

\* C16: when the first request of a call is answered 503, the version is in
\* the ignored list, its directory is gone, and download_file returns an
\* error without a further request.
C16_UnavailableIsFinal ==
    [][(pc = "dl_req" /\ reqs = 0 /\ reqs' = 1 /\ resp'.status = 503) =>
          /\ InSeq(cur.version, ignored'.list)
          /\ fs'[cur.version] = EmptyDir
          /\ pc' = "dl_ret"
          /\ dlResult' = "error"]_vars

\* C17: a request that fails in any way other than a 416 answer ends
\* download_file at once: the error is returned and no file is left.
C17_OtherErrorsAbort ==
    [][(/\ pc = "dl_req"
        /\ reqs' = reqs + 1
        /\ resp'.kind \in {"status_error", "client_error", "timeout"}
        /\ resp'.status # 416) =>
          /\ pc' = "dl_ret"
          /\ dlResult' = "error"
          /\ ~fs'[cur.version].ipsw]_vars

\* C18: a request on which the timeout fires uses up one attempt, and
\* download_file goes on to the next attempt while attempts remain.
C18_TimeoutIsOneAttempt ==
    [][(/\ pc = "dl_req"
        /\ reqs' = reqs + 1
        /\ resp'.kind = "timeout"
        /\ attempt < MAX_RETRIES) =>
          /\ pc' = "dl_req"
          /\ attempt' = attempt + 1]_vars

\* C19: a write failure before the last attempt keeps the file with the
\* bytes written so far, and the attempt that follows sends a request whose
\* Range starts at the file's size.
C19_WriteFailureResumes ==
    [][/\ (pc = "dl_write" /\ pc' = "dl_req") =>
            /\ fs'[cur.version].ipsw
            /\ Len(fs'[cur.version].data) >= Len(fs[cur.version].data)
            /\ SubSeq(fs'[cur.version].data, 1, Len(fs[cur.version].data))
                  = fs[cur.version].data
       /\ (pc = "dl_req" /\ attempt > 1 /\ fs[cur.version].ipsw) =>
            /\ reqs' = reqs + 1
            /\ headers' = IF Size(fs[cur.version]) > 0
                          THEN Size(fs[cur.version]) ELSE None]_vars

\* C20: at every moment at most Permits tasks are inside their pipeline, and
\* every permit not held by a task inside is back in the semaphore, however
\* the tasks before ended.
C20_PermitsBound ==
    /\ Cardinality(Inside) <= Permits
    /\ devices_semaphore = Permits - Cardinality(Inside)

\* C20 happens: a task has ended by an exception, the permits are all taken
\* again and another task waits for one.
C20_FullAfterRaise ==
    /\ \E t \in Tasks : tasks[t] = "raised"
    /\ \E t \in Tasks : tasks[t] = "created"
    /\ Cardinality(Inside) = Permits
    /\ devices_semaphore = 0

\* C21: at most one publish (the command sequence of process_files_with_git)
\* is in flight at any time across all tasks, whichever message it carries,
\* and the lock is held exactly while one is in flight, so that a failing
\* command gives it back.
C21_OnePublishInFlight ==
    /\ Cardinality(InFlight) <= 1
    /\ GIT_LOCK <=> InFlight # {}

\* C21 happens: one task is in the middle of an "ignored" publish while
\* another waits at the lock with an "added" publish.
C21_OneWaitsWhileOtherPublishes ==
    \E t, u \in Tasks :
        /\ t # u
        /\ git[t] = [at |-> "commit", message |-> "ignored"]
        /\ git[u] = [at |-> "waiting", message |-> "added"]
        /\ GIT_LOCK

\* C22: a failure while processing one version, at any step including its
\* publish step, does not stop the remaining versions of the entity: after
\* the publish step of a version the for loop goes on with the firmwares it
\* has still to visit.
C22_PublishFailureGoesOn ==
    [][pc = "publish" => (pc' = "loop" /\ queue' = queue)]_vars

\* C23: within one entity the versions are processed in catalog order and
\* one at a time: a version's pipeline starts only from the for loop, that
\* is after the pipeline (publish included) of the version before it has
\* ended; it is the first firmware the loop has still to visit, and it comes
\* in the catalog after the version processed before it and before every
\* version still to visit.
C23_CatalogOrderOneAtATime ==
    [][(pc' = "bake" /\ pc # "bake") =>
          /\ pc = "loop"
          /\ cur' = Head(queue)
          /\ cur # NoFirmware => cur'.version > cur.version
          /\ \A i \in 1..Len(queue') : queue'[i].version > cur'.version]_vars

\* C23 happens: in git mode the second version of the catalog enters its
\* pipeline after the first one completed and was published, with the third
\* still to visit.
C23_SecondAfterFirstPublished ==
    /\ pc = "bake"
    /\ git_mode
    /\ cur.version = 2
    /\ processed_count = 1
    /\ InSeq(1, fw)
    /\ Len(queue) = 1

\* C24: in publish mode the publishing step is invoked for a version only
\* after its completed entry has been written to the ledger, and only for a
\* version whose bake_ipcc call ended completed.
C24_PublishedAfterLedgerEntry ==
    pc = "publish" =>
        (git_mode /\ last = "completed" /\ InSeq(cur.version, fw))

\* C25: an entity that has at least one completed version in its ledger
\* keeps its directory (and with it the ledger) whatever a run does.
C25_CompletedEntityKeepsDirectory ==
    [][(base /\ fw # <<>>) => (base' /\ fw' # <<>>)]_vars

\* C26: after any sequence of pipeline runs each version appears at most
\* once in the entity's completed list and at most once in its ignored list.
C26_AtMostOneEntryPerVersion ==
    pc = "idle" =>
        \A v \in Versions :
            /\ Cardinality({i \in 1..Len(fw) : fw[i] = v}) <= 1
            /\ Cardinality({i \in 1..Len(ignored.list) : ignored.list[i] = v}) <= 1

\* C28: when the retry loop of download_file ends with a successful write
\* and neither digest matches the file, the call still returns success and
\* the file is left on disk.
C28_MismatchStillSucceeds ==
    [][(/\ pc = "dl_write"
        /\ pc' = "dl_ret"
        /\ fs'[cur.version].ipsw
        /\ ~compare_either_hash(fs'[cur.version].data, cur))
          => dlResult' = "ok"]_vars

\* C28 happens: download_file has returned success after a request, and the
\* file it left on disk matches neither digest.
C28_ReturnedWithMismatch ==
    /\ pc = "dl_ret"
    /\ dlResult = "ok"
    /\ reqs > 0
    /\ resp.kind = "ok"
    /\ fs[cur.version].ipsw
    /\ ~compare_either_hash(fs[cur.version].data, cur)

\* C27: a missing or empty ledger document is treated as an empty ledger by
\* every ledger operation: is_firmware_version_ignored and
\* is_firmware_version_done return false and leave it alone, put_metadata
\* writes a document that holds the new entry and nothing else under the
\* ledger keys, and none of them raises or returns an error.
C27_MissingOrEmptyIsEmptyLedger ==
    [][document.kind \in {"missing", "empty"} =>
          /\ ~answer'.raised
          /\ ~answer'.error
          /\ answer'.op \in {"is_ignored", "is_done"} =>
                (~answer'.value /\ document' = document)
          /\ answer'.op = "put_metadata" =>
                /\ document'.kind = "json"
                /\ \E v \in Versions :
                      \/ /\ document'.metadata.ignored.list = <<v>>
                         /\ ~document'.metadata.ignored.null
                         /\ document'.metadata.fw = NoKey
                      \/ /\ document'.metadata.fw.list = <<v>>
                         /\ ~document'.metadata.fw.null
                         /\ document'.metadata.ignored = NoKey]_vars

\* C27 happens: put_metadata found no file and has written a document that
\* holds a single completed entry.
C27_FirstEntryWritten ==
    /\ answer.op = "put_metadata"
    /\ answer.found = "missing"
    /\ ~answer.error
    /\ document.kind = "json"
    /\ document.metadata.fw.list = <<2>>
    /\ document.metadata.ignored = NoKey

\* C29: a key whose decoded length differs from KEY_LENGTH (16 + 20 bytes) is
\* rejected before any chunk is processed: the call raises, no chunk is read
\* or decrypted, and the output file is as the call found it (not created,
\* not modified).
C29_WrongKeyLengthRejectedFirst ==
    (args.key.hex /\ args.key.len # KEY_LENGTH) =>
        /\ vf.pc \in {"start", "raised"}
        /\ vf.reads = 0
        /\ vf.i = 0
        /\ vf.path_out = args.path_out

\* C29 happens: a call on a V2 image with data, an existing output file and a
\* hexadecimal key one byte too long has raised on the key.
C29_LongKeyRaised ==
    /\ vf.pc = "raised"
    /\ vf.error = "ValueError"
    /\ args.sig.head = "encrcdsa"
    /\ args.hdr.data_size > 0
    /\ Len(args.data) > 0
    /\ args.key.hex
    /\ args.key.len = KEY_LENGTH + 1
    /\ args.path_out.exists

\* C30: the iv used for chunk i is the digest of the MAC key and the index i
\* alone, and the plaintext written for chunk i is what decrypting chunk i by
\* itself under that iv gives, for every chunk processed so far.
C30_ChunksIndependent ==
    vf.pc \in {"chunks", "done"} =>
        \A i \in 0..(vf.i - 1) :
            /\ vf.ivs[i + 1] = hmac_digest(args.key.hmac_key, i)
            /\ vf.chunks[i + 1].written
                 = Take(cbc_decrypt(args.key.aes_key,
                                    hmac_digest(args.key.hmac_key, i),
                                    ZeroPad(vf.chunks[i + 1].raw)),
                        vf.chunks[i + 1].size)

\* C30 happens: an image of several chunks has been decrypted to its end,
\* and the last cipher block of its first chunk is not the second chunk's iv.
C30_SeveralChunksDecrypted ==
    /\ vf.pc = "done"
    /\ vf.i >= 2
    /\ Len(vf.chunks[1].raw) = BlockBytes
    /\ Len(vf.chunks[2].raw) > 0
    /\ vf.chunks[1].raw # vf.ivs[2]

\* C31: for every chunk _decrypt_image writes exactly as many bytes as it
\* read from the input for that chunk, also when that count is not a multiple
\* of the cipher block size and when the read came back short; no byte of the
\* zero padding is written.
C31_WritesWhatItRead ==
    [][(vf.pc = "chunks" /\ vf'.i = vf.i + 1) =>
          Len(vf'.path_out.data) - Len(vf.path_out.data) = vf'.pos - vf.pos]_vars

\* C32: for a V1 image the chunk size decrypt_vf uses is 1 MiB x 1024, that
\* is 1024 ** 3 bytes, and the buffer is one chunk of that size.
C32_V1ChunkIsOneGiB ==
    (determine_version(args.sig).ver = 1 /\ vf.pc \in {"chunks", "done"}) =>
        /\ vf.chunk_size = ByteCount(1, 3)
        /\ vf.buf = [chunk |-> ByteCount(1, 3), more |-> 0]

\* C33: _determine_version gives 2 when the first 8 bytes are the V2 magic,
\* otherwise 1 when the last 8 bytes are the V1 magic, and for every other
\* file, those shorter than 8 bytes included, the call fails with the
\* unknown-header-format error.
C33_HeaderDetection ==
    vf.pc # "start" =>
        IF args.sig.head = "encrcdsa"
        THEN vf.error \notin {"Unknown header format", "OSError"}
        ELSE IF args.sig.tail = "cdsaencr"
        THEN vf.error \notin {"Unknown header format", "OSError"}
        ELSE vf.pc = "raised" /\ vf.error = "Unknown header format"

\* C34: among the archive entries whose name ends in .dmg or .dmg.aea,
\* get_biggest_dmg_file_in_zip selects one whose size is at least that of
\* every other such entry; an entry with another suffix is never selected,
\* however large.
C34_BiggestImageSelected ==
    [][(pc = "ex_locate" /\ path' # "none") =>
          \E i \in 1..Len(entries') :
              /\ IsImage(entries'[i])
              /\ entries'[i].suffix = path'
              /\ \A j \in 1..Len(entries') :
                    IsImage(entries'[j]) => entries'[j].size <= entries'[i].size]_vars

\* C34 happens: the image was selected in an archive whose largest entry is
\* not an image.
C34_SelectedBesideLargerOther ==
    /\ pc = "ex_aea"
    /\ path = "dmg"
    /\ \E i, j \in 1..Len(entries) :
          /\ entries[i].suffix = "dmg"
          /\ ~IsImage(entries[j])
          /\ entries[j].size > entries[i].size

\* C35: after any sequence of ledger operations the value stored under the
\* "ignored" key is a list, so that is_firmware_version_ignored answers with
\* a boolean for every version and never raises.
C35_IgnoredIsAlwaysAList ==
    /\ ~ignored.null
    /\ \A v \in Versions : is_firmware_version_ignored(ignored, v) \in BOOLEAN
    /\ ~is_firmware_version_ignored_raises(ignored)

\* C36: bake_ipcc reports a version as completed only if the completed entry
\* of that version is in metadata.json; a failed ledger write makes it report
\* the version as not completed.
C36_CompletedMeansPersisted ==
    last = "completed" => InSeq(cur.version, fw)

\* C37: when several tasks call install_ipsw concurrently, exactly one of
\* them runs the package install: at most one task's call ever gets through
\* `sudo dpkg -i`.
C37_InstalledOnce == Cardinality(installers) <= 1

\* The run is over: every task has ended, every permit is back, and both
\* locks are free.
RunOver ==
    /\ \A t \in Tasks : tasks[t] \notin {"created", "inside"}
    /\ devices_semaphore = Permits
    /\ ~GIT_LOCK
    /\ ~INSTALL_LOCK

\* C38: no deadlock and eventual completion.  When every subprocess returns,
\* every entity task eventually acquires a permit, every task waiting for
\* the publish lock eventually obtains it (a task stops waiting only by
\* taking the lock), and the run ends, for good, with all permits and both
\* locks free.
C38_RunCompletes ==
    /\ <>(\A t \in Tasks : tasks[t] # "created")
    /\ []<>(\A t \in Tasks : git[t].at # "waiting")
    /\ <>[]RunOver

\* C38: a run is over after its tasks made every call they had to make, one
\* of them an install that went through, with every permit and both locks
\* free.
C38_RunOverAfterWork ==
    /\ RunOver
    /\ calls_left = 0
    /\ installers # {}

====
